---- MODULE Spec2Model ----
(***************************************************************************)
(* A model of utils/torchfile.py: the T7Reader that deserializes the       *)
(* binary Torch7 object-graph format.  The byte stream f is fixed when the *)
(* reader is constructed; read_obj, a recursive descent, is unfolded into  *)
(* a machine with an explicit call stack, one action per code segment      *)
(* between two recursive calls.  Objects that Python compares by identity  *)
(* (dicts, lists, LuaFunction, TorchObject, numpy arrays) live in a heap   *)
(* and are referred to by address.  Semantics are those of Python 3.       *)
(***************************************************************************)
EXTENDS Integers, Sequences, FiniteSets, TLC

VARIABLES f, pos, opts, objects, heap, stack, ret, status, err, last

vars == <<f, pos, opts, objects, heap, stack, ret, status, err, last>>

(***************************************************************************)
(* Type discriminants (module constants of torchfile.py).                  *)
(***************************************************************************)
TYPE_NIL == 0
TYPE_NUMBER == 1
TYPE_STRING == 2
TYPE_TABLE == 3
TYPE_TORCH == 4
TYPE_BOOLEAN == 5
TYPE_FUNCTION == 6
TYPE_RECUR_FUNCTION == 8
LEGACY_TYPE_RECUR_FUNCTION == 7

(***************************************************************************)
(* Generic helpers.                                                        *)
(***************************************************************************)
Min(a, b) == IF a <= b THEN a ELSE b
Max(a, b) == IF a >= b THEN a ELSE b
Last(s) == s[Len(s)]
Front(s) == SubSeq(s, 1, Len(s) - 1)

RECURSIVE Pow2(_)
Pow2(n) == IF n <= 0 THEN 1 ELSE 2 * Pow2(n - 1)

RECURSIVE Concat(_)
Concat(ss) == IF ss = <<>> THEN <<>> ELSE Head(ss) \o Concat(Tail(ss))

(***************************************************************************)
(* Python values.  Every value is a record of one shape:                   *)
(*   kind "nil" | "bool" | "int" | "float" | "str" | "bytes" | "ref"       *)
(*   n    the boolean (0/1), the int when it is small, or the heap address *)
(*   s    the bytes of a str/bytes; the 8 IEEE bytes of a float or of an   *)
(*        int too large to be held in n                                    *)
(* A str is held as the UTF-8 bytes it was decoded from (decoding is       *)
(* injective on the byte strings it accepts).                              *)
(***************************************************************************)
V(kind, n, s) == [kind |-> kind, n |-> n, s |-> s]
None == V("nil", 0, <<>>)
PyBool(b) == V("bool", IF b THEN 1 ELSE 0, <<>>)
PyInt(n) == V("int", n, <<>>)
PyStr(bs) == V("str", 0, bs)
PyBytes(bs) == V("bytes", 0, bs)
Ref(a) == V("ref", a, <<>>)
NoRet == V("noret", 0, <<>>)

(***************************************************************************)
(* struct.unpack of the fixed-width primitives, byte by byte (little       *)
(* endian, two's complement).  A byte is a number in 0..255.               *)
(***************************************************************************)
\* struct.unpack('i', b): a signed 32-bit int.
DecInt(b) == b[1] + 256 * b[2] + 65536 * b[3]
             + 16777216 * (IF b[4] >= 128 THEN b[4] - 256 ELSE b[4])

\* A long is [big, n, s]: n is its value when it lies within SmallLimit,
\* otherwise big holds and s keeps the bytes (Python ints are unbounded, the
\* model's are not).
SmallLimit == 1048576
LongVal(big, n, s) == [big |-> big, n |-> n, s |-> s]
SmallLong(n) == LongVal(FALSE, n, <<>>)

\* struct.unpack('l' or 'q', b) for a 4-byte or an 8-byte long.
DecLong(b) ==
  LET lo == DecInt(SubSeq(b, 1, 4))
      ext == IF Len(b) = 4 THEN TRUE
             ELSE IF b[4] >= 128 THEN \A i \in 5..8 : b[i] = 255
                  ELSE \A i \in 5..8 : b[i] = 0
  IN IF ext /\ lo > -SmallLimit /\ lo < SmallLimit
       THEN SmallLong(lo) ELSE LongVal(TRUE, 0, b)

\* The sign of a long (big ones by their top bit).
LongNegative(l) == IF l.big THEN Last(l.s) >= 128 ELSE l.n < 0

(***************************************************************************)
(* struct.unpack('d', b): an IEEE-754 double from its 8 bytes.  The model  *)
(* keeps a float as its bytes and computes what the reader asks of it:     *)
(* float.is_integer() and int(x).                                          *)
(***************************************************************************)
DblNegative(b) == b[8] >= 128
DblExp(b) == (b[8] % 128) * 16 + (b[7] \div 16)
DblMantZero(b) == b[7] % 16 = 0 /\ \A i \in 1..6 : b[i] = 0
DblIsNaN(b) == DblExp(b) = 2047 /\ ~DblMantZero(b)

RECURSIVE Tz8(_)
\* Trailing zero bits of x > 0.
Tz8(x) == IF x % 2 = 1 THEN 0 ELSE 1 + Tz8(x \div 2)

\* Trailing zero bits of the 52-bit mantissa (52 when it is zero).
DblTz(b) ==
  LET nz == {i \in 1..6 : b[i] # 0}
  IN IF nz # {}
       THEN LET i == CHOOSE j \in nz : \A k \in nz : j <= k
            IN 8 * (i - 1) + Tz8(b[i])
       ELSE IF b[7] % 16 # 0 THEN 48 + Tz8(b[7] % 16) ELSE 52

\* float.is_integer()
DblIsInteger(b) ==
  LET e == DblExp(b)
  IN IF e = 0 THEN DblMantZero(b)
     ELSE IF e = 2047 THEN FALSE
     ELSE IF e < 1023 THEN FALSE
     ELSE IF e - 1023 >= 52 THEN TRUE
     ELSE DblTz(b) >= 52 - (e - 1023)

\* int(x) for a float with is_integer(): exact in n below 2^21, else kept
\* as the float's bytes.
IntOfDbl(b) ==
  LET e == DblExp(b)
      E == e - 1023
      top20 == (b[7] % 16) * 65536 + b[6] * 256 + b[5]
      mag == Pow2(E) + (top20 \div Pow2(20 - E))
  IN IF e = 0 THEN PyInt(0)
     ELSE IF E <= 20 THEN PyInt(IF DblNegative(b) THEN -mag ELSE mag)
     ELSE V("int", 0, b)

PyFloat(b) == V("float", 0, b)

(***************************************************************************)
(* bytes.decode(): UTF-8, strict.  Fails on any ill-formed sequence.       *)
(***************************************************************************)
IsCont(x) == x >= 128 /\ x <= 191

RECURSIVE Utf8Valid(_)
Utf8Valid(b) ==
  IF b = <<>> THEN TRUE
  ELSE LET c == b[1]
           n == Len(b)
       IN IF c < 128 THEN Utf8Valid(Tail(b))
          ELSE IF c >= 194 /\ c <= 223
            THEN n >= 2 /\ IsCont(b[2]) /\ Utf8Valid(SubSeq(b, 3, n))
          ELSE IF c >= 224 /\ c <= 239
            THEN /\ n >= 3 /\ IsCont(b[2]) /\ IsCont(b[3])
                 /\ (c = 224 => b[2] >= 160)
                 /\ (c = 237 => b[2] <= 159)
                 /\ Utf8Valid(SubSeq(b, 4, n))
          ELSE IF c >= 240 /\ c <= 244
            THEN /\ n >= 4 /\ IsCont(b[2]) /\ IsCont(b[3]) /\ IsCont(b[4])
                 /\ (c = 240 => b[2] >= 144)
                 /\ (c = 244 => b[2] <= 143)
                 /\ Utf8Valid(SubSeq(b, 5, n))
          ELSE FALSE

(***************************************************************************)
(* Heap objects: the values Python holds by reference.  One record shape:  *)
(*   kind   "dict" (hashable_uniq_dict) | "list" | "func" (LuaFunction) |  *)
(*          "torchobj" (TorchObject) | "ndarray"                           *)
(*   items  dict: the [k, v] entries in insertion order; list: the         *)
(*          elements; ndarray that owns its buffer: the elements, each the *)
(*          raw bytes of one item                                          *)
(*   n      func: size (an int value's n)                                  *)
(*   s      func: dumped; torchobj: _typename; ndarray: <<>>               *)
(*   a      func: upvalues; torchobj: _obj                                 *)
(*   dtype, owner, ptr, shape, strides: ndarray only.  owner is the        *)
(*          address of the array whose buffer this one reads, ptr the byte *)
(*          offset of its first element in that buffer, strides in bytes.  *)
(***************************************************************************)
H(kind, items, n, s, a) ==
  [kind |-> kind, items |-> items, n |-> n, s |-> s, a |-> a,
   dtype |-> "", owner |-> 0, ptr |-> 0, shape |-> <<>>, strides |-> <<>>]
HDict(items) == H("dict", items, 0, <<>>, None)
HList(elems) == H("list", elems, 0, <<>>, None)
HFunc(size, dumped, upvalues) == H("func", <<>>, size, dumped, upvalues)
HTorchObject(typename, obj) == H("torchobj", <<>>, 0, typename, obj)
HArray(dtype, owner, ptr, shape, strides, data) ==
  [kind |-> "ndarray", items |-> data, n |-> 0, s |-> <<>>, a |-> None,
   dtype |-> dtype, owner |-> owner, ptr |-> ptr, shape |-> shape,
   strides |-> strides]

IsRefTo(h, v, kind) == v.kind = "ref" /\ h[v.n].kind = kind

\* numpy dtype.itemsize
ItemSize(dtype) ==
  CASE dtype \in {"uint8", "int8"} -> 1
    [] dtype = "int16" -> 2
    [] dtype \in {"int32", "float32"} -> 4
    [] dtype \in {"int64", "float64"} -> 8

(***************************************************************************)
(* Keys of a Python dict: hash() and ==.                                   *)
(***************************************************************************)
RECURSIVE Hashable(_, _)
\* hash(v) succeeds: lists and ndarrays are unhashable, a LuaFunction (a
\* namedtuple) hashes its fields, hashable_uniq_dict and TorchObject hash by
\* identity.
Hashable(h, v) ==
  IF v.kind # "ref" THEN TRUE
  ELSE CASE h[v.n].kind \in {"dict", "torchobj"} -> TRUE
         [] h[v.n].kind \in {"list", "ndarray"} -> FALSE
         [] h[v.n].kind = "func" -> Hashable(h, h[v.n].a)

\* The numeric value a bool, int or float is compared by: True == 1 == 1.0.
NumCanon(v) ==
  CASE v.kind = "bool" -> PyInt(v.n)
    [] v.kind = "float" -> IF DblIsInteger(v.s) THEN IntOfDbl(v.s) ELSE v
    [] OTHER -> v

RECURSIVE KeyEq(_, _, _)
\* a == b for two distinct hashable objects (a NaN equals nothing; a
\* LuaFunction compares field by field).
KeyEq(h, a, b) ==
  IF a.kind = "ref" /\ b.kind = "ref"
    THEN \/ a.n = b.n
         \/ /\ h[a.n].kind = "func" /\ h[b.n].kind = "func"
            /\ h[a.n].n = h[b.n].n
            /\ h[a.n].s = h[b.n].s
            /\ KeyEq(h, h[a.n].a, h[b.n].a)
  ELSE IF a.kind = "ref" \/ b.kind = "ref" THEN FALSE
  ELSE IF a.kind = "float" /\ DblIsNaN(a.s) THEN FALSE
  ELSE IF b.kind = "float" /\ DblIsNaN(b.s) THEN FALSE
  ELSE NumCanon(a) = NumCanon(b)

Entry(k, v) == [k |-> k, v |-> v]
DictFind(h, items, k) == {i \in 1..Len(items) : KeyEq(h, items[i].k, k)}
\* obj[k] = v: an equal key keeps its entry (and its first key object).
DictSet(h, items, k, v) ==
  LET hit == DictFind(h, items, k)
  IN IF hit = {} THEN Append(items, Entry(k, v))
     ELSE [items EXCEPT ![CHOOSE i \in hit : TRUE].v = v]
\* obj[k], for a key that is present
DictGet(h, items, k) == items[CHOOSE i \in DictFind(h, items, k) : TRUE].v

\* isinstance(k, int): bool is a subclass of int.
IsInstanceInt(v) == v.kind \in {"int", "bool"}
\* k <= 0 for an int
IntLEZero(v) == IF v.s = <<>> THEN v.n <= 0 ELSE DblNegative(v.s)
\* key_sum + k, as a long (a sum with a big term is big)
AddKey(sum, v) ==
  IF sum.big \/ v.s # <<>> \/ sum.n + v.n >= SmallLimit
    THEN LongVal(TRUE, 0, <<>>)
    ELSE SmallLong(sum.n + v.n)

(***************************************************************************)
(* torch_readers: the class-name registry.  Names are byte strings.        *)
(***************************************************************************)
Ascii_torch == <<116, 111, 114, 99, 104, 46>>
Ascii_Cuda == <<67, 117, 100, 97>>
Ascii_Tensor == <<84, 101, 110, 115, 111, 114>>
Ascii_Storage == <<83, 116, 111, 114, 97, 103, 101>>
Ascii_Byte == <<66, 121, 116, 101>>
Ascii_Char == <<67, 104, 97, 114>>
Ascii_Short == <<83, 104, 111, 114, 116>>
Ascii_Int == <<73, 110, 116>>
Ascii_Long == <<76, 111, 110, 103>>
Ascii_Float == <<70, 108, 111, 97, 116>>
Ascii_Double == <<68, 111, 117, 98, 108, 101>>
Ascii_nn_ReLU == <<110, 110, 46, 82, 101, 76, 85>>
Ascii_nn_Mul == <<110, 110, 46, 77, 117, 108>>
Ascii_nn_Add == <<110, 110, 46, 65, 100, 100>>

\* [name, dtype] for the host types and the Cuda types (add_tensor_reader /
\* add_storage_reader calls; no CudaLong and no CudaFloat entry, and
\* torch.Cuda<suffix> itself is float32).
HostTypes ==
  { <<Ascii_Byte, "uint8">>, <<Ascii_Char, "int8">>, <<Ascii_Short, "int16">>,
    <<Ascii_Int, "int32">>, <<Ascii_Long, "int64">>,
    <<Ascii_Float, "float32">>, <<Ascii_Double, "float64">> }
CudaTypes ==
  { <<Ascii_Cuda, "float32">>,
    <<Ascii_Cuda \o Ascii_Byte, "uint8">>, <<Ascii_Cuda \o Ascii_Char, "int8">>,
    <<Ascii_Cuda \o Ascii_Short, "int16">>, <<Ascii_Cuda \o Ascii_Int, "int32">>,
    <<Ascii_Cuda \o Ascii_Double, "float64">> }
TensorNames ==
  { <<Ascii_torch \o t[1] \o Ascii_Tensor, t[2]>> : t \in HostTypes \cup CudaTypes }
StorageNames ==
  { <<Ascii_torch \o t[1] \o Ascii_Storage, t[2]>> : t \in HostTypes \cup CudaTypes }
\* Of the trivial classes (all read alike) the model registers these three.
TrivialNames == {Ascii_nn_ReLU, Ascii_nn_Mul, Ascii_nn_Add}

NoReader == [kind |-> "none", dtype |-> ""]
\* torch_readers.get(className): which reader, and with which dtype
torch_readers(className) ==
  IF \E t \in TensorNames : t[1] = className
    THEN [kind |-> "tensor",
          dtype |-> (CHOOSE t \in TensorNames : t[1] = className)[2]]
  ELSE IF \E t \in StorageNames : t[1] = className
    THEN [kind |-> "storage",
          dtype |-> (CHOOSE t \in StorageNames : t[1] = className)[2]]
  ELSE IF className \in TrivialNames
    THEN [kind |-> "trivial", dtype |-> ""]
  ELSE NoReader

(***************************************************************************)
(* The file object and the primitive reads.  Each primitive is an operator *)
(* of the position p it starts at and yields                               *)
(*   [ok, err, val, pos]: whether it returned, the exception if not, the   *)
(*   value, and the file position it leaves.                               *)
(* Python evaluates an argument or an intermediate result once; the model  *)
(* fixes such a value by binding it over a singleton set, as               *)
(* Only({F(x) : x \in {e}}) for a value and \E x \in {e} : A(x) for a step. *)
(***************************************************************************)
Only(S) == CHOOSE x \in S : TRUE

Res(ok, e, val, p) == [ok |-> ok, err |-> e, val |-> val, pos |-> p]

\* f.read(sz) at position p: at most sz bytes, fewer at end of file, all
\* the rest for a negative sz.
FileRead(p, sz) ==
  IF sz < 0 THEN SubSeq(f, p + 1, Len(f))
  ELSE SubSeq(f, p + 1, p + Min(sz, Len(f) - p))

\* A faulty unpack, to test the termination property against: a short
\* buffer is padded with zero bytes instead of raising struct.error.
UnpackZeroFill(b, sz, p) ==
  Res(TRUE, "", b \o [i \in 1..(sz - Len(b)) |-> 0], p + Len(b))

\* struct.unpack(fmt, b) raises struct.error unless b has calcsize(fmt) bytes
Unpack(b, sz, p) == Res(Len(b) = sz, "struct.error", b, p + Len(b))

\* _read(fmt), with sz = struct.calcsize(fmt)
_read(p, sz) == Only({Unpack(FileRead(q, sz), sz, q) : q \in {p}})

IntOf(r) == Res(r.ok, r.err, IF r.ok THEN DecInt(r.val) ELSE 0, r.pos)
read_int(p) == Only({IntOf(r) : r \in {_read(p, 4)}})

\* struct.calcsize('q') = 8; struct.calcsize('l') is the platform's
LongWidth == IF opts.force_8bytes_long THEN 8 ELSE opts.native_long

LongOf(r) == Res(r.ok, r.err, IF r.ok THEN DecLong(r.val) ELSE SmallLong(0), r.pos)
read_long(p) == Only({LongOf(r) : r \in {_read(p, LongWidth)}})

read_double(p) == _read(p, 8)

RECURSIVE LongsAt(_, _, _)
\* n longs of width w decoded from position p (the bytes are there)
LongsAt(p, n, w) ==
  IF n <= 0 THEN <<>>
  ELSE <<DecLong(SubSeq(f, p + 1, p + w))>> \o LongsAt(p + w, n - 1, w)

\* read_long_array(n) when the file holds `have` more longs of w bytes: a
\* loop of read_long, or array('l').fromfile(f, n), which raises ValueError
\* for n < 0 and EOFError when items are missing.
LongArray(p, n, w, have) ==
  IF opts.force_8bytes_long
    THEN IF n <= have THEN Res(TRUE, "", LongsAt(p, n, w), p + w * Max(n, 0))
         ELSE Res(FALSE, "struct.error", <<>>, Len(f))
  ELSE IF n < 0 THEN Res(FALSE, "ValueError", <<>>, p)
  ELSE IF n <= have THEN Res(TRUE, "", LongsAt(p, n, w), p + w * n)
  ELSE Res(FALSE, "EOFError", <<>>, Len(f))

read_long_array(p, n) ==
  Only({LongArray(q, n, LongWidth, (Len(f) - q) \div LongWidth) : q \in {p}})

\* bytes.decode() of the bytes b read up to position p
Decode(b, p) ==
  IF Utf8Valid(b) THEN Res(TRUE, "", PyStr(b), p)
  ELSE Res(FALSE, "UnicodeDecodeError", PyStr(<<>>), p)

\* bytes = self.f.read(size); return bytes.decode()
StringBody(b, p) == Decode(b, p + Len(b))
StringOf(size) ==
  IF size.ok
    THEN Only({StringBody(b, size.pos) : b \in {FileRead(size.pos, size.val)}})
  ELSE Res(FALSE, size.err, PyStr(<<>>), size.pos)

\* read_string(): size = self.read_int(), then the bytes
read_string(p) == Only({StringOf(size) : size \in {read_int(p)}})

BoolOf(r) == Res(r.ok, r.err, PyBool(r.ok /\ r.val = 1), r.pos)
read_boolean(p) == Only({BoolOf(r) : r \in {read_int(p)}})

(***************************************************************************)
(* The call stack of read_obj.  One frame per active read_obj call:        *)
(*   op  "read_obj"  the call has not read its discriminant yet            *)
(*       "func"      waiting for the upvalues of a function                *)
(*       "torchobj"  waiting for the nested value of a TorchObject         *)
(*       "tensor"    read_tensor_generic waiting for its storage           *)
(*       "table"     in the pair loop; phase "loop" | "key" | "val"        *)
(* and the locals of the call.  ret is the value the last finished call    *)
(* returned (NoRet while a call is being made).                            *)
(***************************************************************************)
CallFrame ==
  [op |-> "read_obj", phase |-> "", index |-> 0, addr |-> 0, size |-> 0,
   i |-> 0, k |-> NoRet, key_sum |-> SmallLong(0), keys_natural |-> TRUE,
   dumped |-> <<>>, className |-> <<>>, dtype |-> "", ndim |-> 0,
   sizes |-> <<>>, strides |-> <<>>, storage_offset |-> SmallLong(0)]

Top == stack[Len(stack)]
Running == status = "running" /\ stack # <<>>
AtCall == Running /\ Top.op = "read_obj"
Resumed(op) == Running /\ Top.op = op /\ ret # NoRet

Label(act, index) == [act |-> act, index |-> index, pos0 |-> pos]

\* objects[index] = v
Put(objs, index, v) ==
  [j \in DOMAIN objs \cup {index} |-> IF j = index THEN v ELSE objs[j]]

\* raise: the exception leaves read_obj and every caller; stack keeps the
\* frames that were active, for inspection.
Raise(e, p, act) ==
  /\ status' = "error"
  /\ err' = e
  /\ ret' = NoRet
  /\ pos' = p
  /\ last' = Label(act, 0)
  /\ UNCHANGED <<f, opts, objects, heap, stack>>

\* return v from the call on top of the stack
Return(v, p) ==
  /\ stack' = Front(stack)
  /\ ret' = v
  /\ pos' = p
  /\ status' = IF Len(stack) = 1 THEN "done" ELSE "running"
  /\ err' = err

\* return a value that lives in no heap object and is not registered
ReturnInline(v, p, act) ==
  /\ Return(v, p)
  /\ last' = Label(act, 0)
  /\ UNCHANGED <<f, opts, objects, heap>>

\* obj = <a new heap object>; self.objects[index] = obj; return obj
ReturnNew(index, obj, p, act) ==
  /\ heap' = Append(heap, obj)
  /\ objects' = Put(objects, index, Ref(Len(heap) + 1))
  /\ Return(Ref(Len(heap) + 1), p)
  /\ last' = Label(act, index)
  /\ UNCHANGED <<f, opts>>

\* replace the top frame by fr and call read_obj
CallReadObj(fr, p, act) ==
  /\ stack' = Front(stack) \o <<fr, CallFrame>>
  /\ ret' = NoRet
  /\ pos' = p
  /\ last' = Label(act, fr.index)
  /\ UNCHANGED <<f, opts, objects, heap, status, err>>

Indexable == {TYPE_TABLE, TYPE_TORCH, TYPE_FUNCTION, TYPE_RECUR_FUNCTION,
              LEGACY_TYPE_RECUR_FUNCTION}
FunctionTypes == {TYPE_FUNCTION, TYPE_RECUR_FUNCTION, LEGACY_TYPE_RECUR_FUNCTION}
InlineTypes == {TYPE_NIL, TYPE_NUMBER, TYPE_BOOLEAN, TYPE_STRING}

\* The discriminant and the object index of the call that starts at pos.
TypeIdx == read_int(pos)
Index == read_int(TypeIdx.pos)
TypeIn(t, ts) == t.ok /\ t.val \in ts
GotType(ts) == AtCall /\ TypeIn(TypeIdx, ts)
Known(ix) == ix.ok /\ ix.val \in DOMAIN objects
Fresh(ix) == ix.ok /\ ix.val \notin DOMAIN objects
NewIndex(ts) == GotType(ts) /\ Fresh(Index)

(***************************************************************************)
(* read_obj: the inline kinds.                                             *)
(***************************************************************************)
\* typeidx = self.read_int() fails at the end of the stream
ReadTypeTruncated ==
  /\ AtCall /\ ~TypeIn(TypeIdx, Int)
  /\ Raise("struct.error", Len(f), "ReadTypeTruncated")

ReadNil ==
  /\ GotType({TYPE_NIL})
  /\ ReturnInline(None, TypeIdx.pos, "ReadNil")

\* x = self.read_double(), narrowed by the int heuristic
Number(x) ==
  IF opts.use_int_heuristic /\ DblIsInteger(x) THEN IntOfDbl(x) ELSE PyFloat(x)
NumberBody(x) ==
  IF x.ok THEN ReturnInline(Number(x.val), x.pos, "ReadNumber")
  ELSE Raise(x.err, x.pos, "ReadNumber")
ReadNumber ==
  /\ GotType({TYPE_NUMBER})
  /\ \E x \in {read_double(TypeIdx.pos)} : NumberBody(x)

BooleanBody(b) ==
  IF b.ok THEN ReturnInline(b.val, b.pos, "ReadBoolean")
  ELSE Raise(b.err, b.pos, "ReadBoolean")
ReadBoolean ==
  /\ GotType({TYPE_BOOLEAN})
  /\ \E b \in {read_boolean(TypeIdx.pos)} : BooleanBody(b)

StringRead(str) ==
  IF str.ok THEN ReturnInline(str.val, str.pos, "ReadString")
  ELSE Raise(str.err, str.pos, "ReadString")
ReadString ==
  /\ GotType({TYPE_STRING})
  /\ \E str \in {read_string(TypeIdx.pos)} : StringRead(str)

\* A faulty variant, to test the unknown-discriminant property against: an
\* unknown discriminant is skipped as if it were nil.
UnknownTypeAsNil ==
  /\ GotType(Int \ (Indexable \cup InlineTypes))
  /\ ReturnInline(None, TypeIdx.pos, "ReadUnknownType")

\* raise T7ReaderException("unknown object")
ReadUnknownType ==
  /\ GotType(Int \ (Indexable \cup InlineTypes))
  /\ Raise("T7ReaderException: unknown object", TypeIdx.pos, "ReadUnknownType")

(***************************************************************************)
(* read_obj: the indexable kinds.                                          *)
(***************************************************************************)
\* index = self.read_int() fails
ReadIndexTruncated ==
  /\ GotType(Indexable) /\ ~TypeIn(Index, Int)
  /\ Raise("struct.error", Len(f), "ReadIndexTruncated")

\* A faulty variant, to test the known-index property against: a hit also
\* skips the size field that follows the index of a full object.
KnownIndexSkipsSize(index) ==
  /\ Return(objects[index.val], index.pos + 4)
  /\ last' = Label("ReadKnownIndex", index.val)
  /\ UNCHANGED <<f, opts, objects, heap>>

\* if index in self.objects: return self.objects[index]
KnownIndexBody(index) ==
  /\ Return(objects[index.val], index.pos)
  /\ last' = Label("ReadKnownIndex", index.val)
  /\ UNCHANGED <<f, opts, objects, heap>>
ReadKnownIndex ==
  /\ GotType(Indexable) /\ Known(Index)
  /\ \E index \in {Index} : KnownIndexBody(index)

\* a function: size = self.read_int(); dumped = self.f.read(size); then
\* upvalues = self.read_obj()
FunctionDumped(index, size, dumped, p) ==
  CallReadObj([CallFrame EXCEPT !.op = "func", !.index = index, !.size = size,
                 !.dumped = dumped], p + Len(dumped), "BeginFunction")
FunctionBody(index, size) ==
  IF size.ok
    THEN \E dumped \in {FileRead(size.pos, size.val)} :
           FunctionDumped(index, size.val, dumped, size.pos)
  ELSE Raise(size.err, size.pos, "BeginFunction")
BeginFunction ==
  /\ NewIndex(FunctionTypes)
  /\ \E index \in {Index} : \E size \in {read_int(index.pos)} :
       FunctionBody(index.val, size)

\* obj = LuaFunction(size, dumped, upvalues); self.objects[index] = obj
FinishFunction ==
  /\ Resumed("func")
  /\ ReturnNew(Top.index, HFunc(Top.size, Top.dumped, ret), pos, "FinishFunction")

\* a table: size = self.read_int(); obj = hashable_uniq_dict()
TableBody(index, size) ==
  IF size.ok
    THEN /\ stack' = [stack EXCEPT ![Len(stack)] =
                        [CallFrame EXCEPT !.op = "table", !.phase = "loop",
                           !.index = index, !.size = size.val,
                           !.addr = Len(heap) + 1]]
         /\ heap' = Append(heap, HDict(<<>>))
         /\ pos' = size.pos
         /\ last' = Label("BeginTable", index)
         /\ UNCHANGED <<f, opts, objects, ret, status, err>>
  ELSE Raise(size.err, size.pos, "BeginTable")
BeginTable ==
  /\ NewIndex({TYPE_TABLE})
  /\ \E index \in {Index} : \E size \in {read_int(index.pos)} :
       TableBody(index.val, size)

\* for i in range(size): k = self.read_obj()
TableNextPair ==
  /\ Running /\ Top.op = "table" /\ Top.phase = "loop" /\ Top.i < Top.size
  /\ CallReadObj([Top EXCEPT !.phase = "key"], pos, "TableNextPair")

\* v = self.read_obj()
TableGotKey ==
  /\ Resumed("table") /\ Top.phase = "key"
  /\ CallReadObj([Top EXCEPT !.phase = "val", !.k = ret], pos, "TableGotKey")

\* if not isinstance(k, int) or k <= 0: keys_natural = False
KeysNatural(fr, k) ==
  IF opts.use_list_heuristic /\ (~IsInstanceInt(k) \/ IntLEZero(k))
    THEN FALSE ELSE fr.keys_natural
\* elif isinstance(k, int): key_sum += k
KeySum(fr, k) ==
  IF opts.use_list_heuristic /\ IsInstanceInt(k) /\ ~IntLEZero(k)
    THEN AddKey(fr.key_sum, k) ELSE fr.key_sum

\* obj[k] = v, then the bookkeeping of the list heuristic
PairBody(fr, k, v) ==
  IF Hashable(heap, k)
    THEN /\ heap' = [heap EXCEPT ![fr.addr].items =
                       DictSet(heap, heap[fr.addr].items, k, v)]
         /\ stack' = [stack EXCEPT ![Len(stack)] =
                        [fr EXCEPT !.phase = "loop", !.i = fr.i + 1, !.k = NoRet,
                           !.keys_natural = KeysNatural(fr, k),
                           !.key_sum = KeySum(fr, k)]]
         /\ ret' = NoRet
         /\ last' = Label("TableGotValue", fr.index)
         /\ UNCHANGED <<f, pos, opts, objects, status, err>>
  ELSE Raise("TypeError", pos, "TableGotValue")
TableGotValue ==
  /\ Resumed("table") /\ Top.phase = "val"
  /\ \E fr \in {Top} : PairBody(fr, fr.k, ret)

\* n(n+1)/2 = sum <=> consecutive and natural numbers
ListLike(fr, n) ==
  /\ opts.use_list_heuristic
  /\ fr.keys_natural
  /\ ~fr.key_sum.big
  /\ n * (n + 1) = 2 * fr.key_sum.n

\* lst = [obj[i + 1] for i in range(len(obj))]
ListOf(h, items) == [i \in 1..Len(items) |-> DictGet(h, items, PyInt(i))]
HasKeys(h, items) == \A i \in 1..Len(items) : DictFind(h, items, PyInt(i)) # {}

\* after the loop: the list heuristic, self.objects[index] = obj, return obj
FinishBody(fr, items) ==
  IF ~ListLike(fr, Len(items))
    THEN /\ objects' = Put(objects, fr.index, Ref(fr.addr))
         /\ Return(Ref(fr.addr), pos)
         /\ last' = Label("TableFinish", fr.index)
         /\ UNCHANGED <<f, opts, heap>>
  ELSE IF HasKeys(heap, items)
    THEN ReturnNew(fr.index, HList(ListOf(heap, items)), pos, "TableFinish")
  ELSE Raise("KeyError", pos, "TableFinish")
TableFinish ==
  /\ Running /\ Top.op = "table" /\ Top.phase = "loop" /\ Top.i >= Top.size
  /\ \E fr \in {Top} : FinishBody(fr, heap[fr.addr].items)

(***************************************************************************)
(* read_obj: torch classes.                                                *)
(***************************************************************************)
IsSpace(c) == c \in {9, 10, 11, 12, 13, 32}
IsDigit(c) == c >= 48 /\ c <= 57

RECURSIVE Strip(_)
\* str.strip() of ASCII white space
Strip(b) ==
  IF b = <<>> THEN b
  ELSE IF IsSpace(b[1]) THEN Strip(Tail(b))
  ELSE IF IsSpace(Last(b)) THEN Strip(Front(b))
  ELSE b

\* digits, single underscores allowed between digits
Digits(d) ==
  /\ d # <<>>
  /\ IsDigit(d[1]) /\ IsDigit(Last(d))
  /\ \A i \in 1..Len(d) : IsDigit(d[i]) \/ (d[i] = 95 /\ d[i + 1] # 95)
Unsigned(t) == IF t # <<>> /\ t[1] \in {43, 45} THEN Tail(t) ELSE t
\* int(text) succeeds: white space, an optional sign, then digits (ASCII)
IntLiteral(b) == Digits(Unsigned(Strip(b)))

\* version.startswith('V ')
IsVersioned(b) == Len(b) >= 2 /\ b[1] = 86 /\ b[2] = 32

\* className = self.read_string()
ClassNameOf(name) == Res(name.ok, name.err, name.val.s, name.pos)
\* version = self.read_string(); the version number; className
\* (version.partition(' ')[2] is what follows the "V ")
HeaderOf(version) ==
  IF ~version.ok THEN Res(FALSE, version.err, <<>>, version.pos)
  ELSE IF ~IsVersioned(version.val.s) THEN ClassNameOf(version)
  ELSE IF ~IntLiteral(SubSeq(version.val.s, 3, Len(version.val.s)))
    THEN Res(FALSE, "ValueError", <<>>, version.pos)
  ELSE Only({ClassNameOf(name) : name \in {read_string(version.pos)}})
TorchHeader(p) == Only({HeaderOf(version) : version \in {read_string(p)}})

Header == TorchHeader(Index.pos)
ClassIn(h, kinds) == h.ok /\ torch_readers(h.val).kind \in kinds
GotClass(kinds) == NewIndex({TYPE_TORCH}) /\ ClassIn(Header, kinds)

HeaderFails(h) == ~h.ok /\ Raise(h.err, h.pos, "TorchHeaderFails")
TorchHeaderFails ==
  /\ NewIndex({TYPE_TORCH})
  /\ \E h \in {Header} : HeaderFails(h)

\* A faulty variant, to test the unknown-class property against: the
\* unregistered class is refused whatever force_deserialize_classes says.
TorchUnsupportedAlways ==
  /\ GotClass({"none"})
  /\ Raise("T7ReaderException: unsupported torch class", Header.pos,
           "TorchUnsupported")

\* raise T7ReaderException('unsupported torch class: <%s>' % className)
TorchUnsupported ==
  /\ GotClass({"none"}) /\ ~opts.force_deserialize_classes
  /\ Raise("T7ReaderException: unsupported torch class", Header.pos,
           "TorchUnsupported")

\* TorchObject(className, self.read_obj()): an unregistered class when
\* force_deserialize_classes, or a trivial class reader
TorchObjectBody(index, h) ==
  CallReadObj([CallFrame EXCEPT !.op = "torchobj", !.index = index,
                 !.className = h.val], h.pos, "BeginTorchObject")
BeginTorchObject ==
  /\ \/ GotClass({"none"}) /\ opts.force_deserialize_classes
     \/ GotClass({"trivial"})
  /\ \E h \in {Header} : TorchObjectBody(Index.val, h)

FinishTorchObject ==
  /\ Resumed("torchobj")
  /\ ReturnNew(Top.index, HTorchObject(Top.className, ret), pos,
               "FinishTorchObject")

RECURSIVE ItemsAt(_, _, _)
\* n items of w bytes each from position p
ItemsAt(p, n, w) ==
  IF n <= 0 THEN <<>>
  ELSE <<SubSeq(f, p + 1, p + w)>> \o ItemsAt(p + w, n - 1, w)

\* How many items np.fromfile(f, dtype, count) returns when `have` remain:
\* count of them, all that remain for a negative count, and only those that
\* remain when fewer than count do.
FromFileCount(count, have) ==
  IF LongNegative(count) \/ count.big THEN have ELSE Min(count.n, have)

\* np.fromfile came up short of count
Short(count, n) == ~LongNegative(count) /\ (count.big \/ n < count.n)

\* The array of n items of w bytes read at p.  A short read leaves the
\* position after the items read or at the end of the file.
StorageArray(index, dtype, count, p, n, w) ==
  \E after \in IF Short(count, n) THEN {p + n * w, Len(f)} ELSE {p + n * w} :
    ReturnNew(index,
              HArray(dtype, Len(heap) + 1, SmallLong(0), <<SmallLong(n)>>,
                     <<SmallLong(w)>>, ItemsAt(p, n, w)),
              after, "ReadStorage")

\* read_storage: size = reader.read_long(); np.fromfile(reader.f, dtype,
\* count=size).  A count too large to allocate raises MemoryError.
StorageBody(index, dtype, size) ==
  IF ~size.ok THEN Raise(size.err, size.pos, "ReadStorage")
  ELSE \/ /\ size.val.big /\ ~LongNegative(size.val)
          /\ Raise("MemoryError", size.pos, "ReadStorage")
       \/ \E n \in {FromFileCount(size.val,
                                    (Len(f) - size.pos) \div ItemSize(dtype))} :
            StorageArray(index, dtype, size.val, size.pos, n, ItemSize(dtype))
ReadStorage ==
  /\ GotClass({"storage"})
  /\ \E h \in {Header} : \E size \in {read_long(h.pos)} :
       StorageBody(Index.val, torch_readers(h.val).dtype, size)

\* read_tensor_generic up to storage = reader.read_obj()
TensorOffset(fr, offset) ==
  IF offset.ok
    THEN CallReadObj([fr EXCEPT !.storage_offset = offset.val], offset.pos,
                     "BeginTensor")
  ELSE Raise(offset.err, offset.pos, "BeginTensor")
TensorStride(fr, stride) ==
  IF stride.ok
    THEN \E offset \in {read_long(stride.pos)} :
           TensorOffset([fr EXCEPT !.strides = stride.val], offset)
  ELSE Raise(stride.err, stride.pos, "BeginTensor")
TensorSize(fr, size) ==
  IF size.ok
    THEN \E stride \in {read_long_array(size.pos, fr.ndim)} :
           TensorStride([fr EXCEPT !.sizes = size.val], stride)
  ELSE Raise(size.err, size.pos, "BeginTensor")
TensorNdim(fr, ndim) ==
  IF ndim.ok
    THEN \E size \in {read_long_array(ndim.pos, ndim.val)} :
           TensorSize([fr EXCEPT !.ndim = ndim.val], size)
  ELSE Raise(ndim.err, ndim.pos, "BeginTensor")
TensorBody(index, h) ==
  \E ndim \in {read_int(h.pos)} :
    TensorNdim([CallFrame EXCEPT !.op = "tensor", !.index = index,
                  !.className = h.val, !.dtype = torch_readers(h.val).dtype],
               ndim)
BeginTensor ==
  /\ GotClass({"tensor"})
  /\ \E h \in {Header} : TensorBody(Index.val, h)

\* storage_offset = reader.read_long() - 1
MinusOne(l) == IF l.big THEN l ELSE SmallLong(l.n - 1)

\* x * itemsize for a stride
Scale(l, w) ==
  IF l.big \/ l.n * w >= SmallLimit \/ l.n * w <= -SmallLimit
    THEN LongVal(TRUE, 0, l.s) ELSE SmallLong(l.n * w)

\* The start of the slice [off:] of an axis of len items, clipped as Python
\* slicing does (a negative start counts from the end).
SliceIndex(off, len) ==
  IF off.big THEN (IF LongNegative(off) THEN 0 ELSE len)
  ELSE IF off.n < 0 THEN Max(off.n + len, 0)
  ELSE Min(off.n, len)

\* The byte offset of storage[off:] in the owner's buffer.
SliceStart(arr, off) ==
  IF arr.ptr.big \/ arr.shape[1].big \/ arr.strides[1].big
    THEN LongVal(TRUE, 0, <<>>)
  ELSE Scale(SmallLong(arr.ptr.n + SliceIndex(off, arr.shape[1].n) * arr.strides[1].n), 1)

\* stride = [storage.dtype.itemsize * x for x in stride]
ByteStrides(strides, w) == [i \in 1..Len(strides) |-> Scale(strides[i], w)]

\* np.lib.stride_tricks.as_strided(storage[storage_offset:], shape=size,
\* strides=stride): the same buffer, a new start, shape and strides
AsStrided(st, fr) ==
  HArray(st.dtype, st.owner, SliceStart(st, MinusOne(fr.storage_offset)),
         fr.sizes, ByteStrides(fr.strides, ItemSize(st.dtype)), <<>>)

\* np.empty((0), dtype=dtype)
EmptyArray(dtype) ==
  HArray(dtype, Len(heap) + 1, SmallLong(0), <<SmallLong(0)>>,
         <<SmallLong(ItemSize(dtype))>>, <<>>)

AnyBig(ls) == \E i \in 1..Len(ls) : ls[i].big
AnyNegative(ls) == \E i \in 1..Len(ls) : LongNegative(ls[i])

\* read_tensor_generic once the storage is read; then read_obj registers
\* the tensor.  A storage that is no array has no dtype.itemsize;
\* as_strided refuses negative sizes; sizes or strides beyond the model's
\* numbers may or may not overflow numpy's.
TensorFinishBody(fr, storage) ==
  IF storage = None \/ fr.ndim = 0 \/ Len(fr.sizes) = 0 \/ Len(fr.strides) = 0
    THEN ReturnNew(fr.index, EmptyArray(fr.dtype), pos, "FinishTensor")
  ELSE IF ~IsRefTo(heap, storage, "ndarray")
    THEN Raise("AttributeError", pos, "FinishTensor")
  ELSE IF AnyNegative(fr.sizes) THEN Raise("ValueError", pos, "FinishTensor")
  ELSE \/ ReturnNew(fr.index, AsStrided(heap[storage.n], fr), pos, "FinishTensor")
       \/ /\ AnyBig(fr.sizes) \/ AnyBig(fr.strides)
          /\ Raise("ValueError", pos, "FinishTensor")
FinishTensor ==
  /\ Resumed("tensor")
  /\ \E fr \in {Top} : TensorFinishBody(fr, ret)

(***************************************************************************)
(* Reading a tensor: what numpy finds at a multi-index of a strided array. *)
(***************************************************************************)
RECURSIVE Dot(_, _, _)
\* idx[1] * ls[1].n + ... + idx[k] * ls[k].n
Dot(idx, ls, k) == IF k = 0 THEN 0 ELSE idx[k] * ls[k].n + Dot(idx, ls, k - 1)

\* What lies outside the owner's buffer is whatever the memory holds: any
\* item, of which these two stand for the rest.
Garbage == {<<0, 0, 0, 0>>, <<255, 255, 255, 255>>}

\* The item at byte `at` of a buffer of items of w bytes: one item inside
\* the buffer, any item outside it.
ItemAt(items, at, w) ==
  IF at >= 0 /\ at % w = 0 /\ at \div w < Len(items)
    THEN {items[at \div w + 1]}
  ELSE Garbage

\* arr[idx]: the item at byte ptr + sum of idx[k] * strides[k] of the
\* owner's buffer (idx counts from 0)
ViewElem(h, arr, idx) ==
  ItemAt(h[arr.owner].items, arr.ptr.n + Dot(idx, arr.strides, Len(idx)),
         ItemSize(arr.dtype))

RECURSIVE MaxExtent(_)
MaxExtent(shape) ==
  IF shape = <<>> THEN 0 ELSE Max(Head(shape).n, MaxExtent(Tail(shape)))

\* the multi-indices in range of a shape
MultiIndices(shape) ==
  {idx \in [1..Len(shape) -> 0..MaxExtent(shape) - 1] :
     \A k \in 1..Len(shape) : idx[k] < shape[k].n}

(***************************************************************************)
(* The streams the reader is run on, written the way Torch writes them.    *)
(***************************************************************************)
\* struct.pack('i', n)
EncInt(n) ==
  LET m == IF n < 0 THEN -(n + 1) ELSE n
      b == <<m % 256, (m \div 256) % 256, (m \div 65536) % 256, m \div 16777216>>
  IN IF n < 0 THEN [i \in 1..4 |-> 255 - b[i]] ELSE b

\* a long of w bytes
EncLong(n, w) ==
  IF w = 4 THEN EncInt(n)
  ELSE EncInt(n) \o (IF n < 0 THEN <<255, 255, 255, 255>> ELSE <<0, 0, 0, 0>>)

EncLongs(ns, w) == Concat([i \in 1..Len(ns) |-> EncLong(ns[i], w)])
EncStr(b) == EncInt(Len(b)) \o b

\* struct.pack('d', x) for the numbers used as payloads
Dbl_1 == <<0, 0, 0, 0, 0, 0, 240, 63>>
Dbl_2 == <<0, 0, 0, 0, 0, 0, 0, 64>>
Dbl_3 == <<0, 0, 0, 0, 0, 0, 8, 64>>
Dbl_4 == <<0, 0, 0, 0, 0, 0, 16, 64>>
Dbl_1_5 == <<0, 0, 0, 0, 0, 0, 248, 63>>
Dbl_0 == <<0, 0, 0, 0, 0, 0, 0, 0>>
Dbl_m1 == <<0, 0, 0, 0, 0, 0, 240, 191>>

WNil == EncInt(TYPE_NIL)
WNum(d) == EncInt(TYPE_NUMBER) \o d
WStr(b) == EncInt(TYPE_STRING) \o EncStr(b)
WBool(n) == EncInt(TYPE_BOOLEAN) \o EncInt(n)
\* a reference to an object already written: discriminant and index only
WRef(t, index) == EncInt(t) \o EncInt(index)
WTable(index, n, pairs) == WRef(TYPE_TABLE, index) \o EncInt(n) \o pairs
WFunc(t, index, dumped, upvalues) == WRef(t, index) \o EncStr(dumped) \o upvalues
WTorch(index, className, payload) ==
  WRef(TYPE_TORCH, index) \o EncStr(className) \o payload
WTorchV(index, version, className, payload) ==
  WRef(TYPE_TORCH, index) \o EncStr(version) \o EncStr(className) \o payload
\* a Storage of int32 items 0..n-1, with longs of w bytes
WIntStorage(index, n, w) ==
  WTorch(index, Ascii_torch \o Ascii_Int \o Ascii_Storage,
         EncLong(n, w) \o Concat([i \in 1..n |-> EncInt(i - 1)]))
WIntTensor(index, sizes, strides, offset, w, storage) ==
  WTorch(index, Ascii_torch \o Ascii_Int \o Ascii_Tensor,
         EncInt(Len(sizes)) \o EncLongs(sizes, w) \o EncLongs(strides, w)
           \o EncLong(offset, w) \o storage)

Ascii_a == <<97>>
Ascii_my_Class == <<109, 121, 46, 67, 108, 97, 115, 115>>
Ascii_V1 == <<86, 32, 49>>
Ascii_Vx == <<86, 32, 120>>

\* --- tables for the list heuristic: up to MaxPairs pairs whose keys are
\* any choice of distinct keys of KeyList, written in the order of the list
\* or in the reverse order, or one key repeated; the j-th value is the
\* one-letter string after "`".
MaxPairs == 3
KeyList == <<WNum(Dbl_1), WNum(Dbl_2), WNum(Dbl_3), WNum(Dbl_1_5), WNum(Dbl_0),
             WBool(1), WStr(Ascii_a)>>
KeyChoices(n) ==
  {c \in [1..n -> 1..Len(KeyList)] :
     \/ \A i, j \in 1..n : i < j => c[i] < c[j]
     \/ \A i, j \in 1..n : i < j => c[i] > c[j]
     \/ \A i, j \in 1..n : c[i] = c[j]}
KeyedTable(index, ks) ==
  WTable(index, Len(ks), Concat([j \in 1..Len(ks) |-> ks[j] \o WStr(<<96 + j>>)]))
TableStreams ==
  UNION { {KeyedTable(1, [j \in 1..n |-> KeyList[c[j]]]) : c \in KeyChoices(n)} :
          n \in 0..MaxPairs }

\* --- object graphs: a root over inner objects over leaves, with shared
\* and cyclic references, unknown discriminants and unregistered classes.
MaxIndex == 2
Leaves == {WNil, WNum(Dbl_1), WStr(Ascii_a), EncInt(9)}
           \cup {WRef(TYPE_TABLE, j) : j \in 1..MaxIndex}
ClassNames == {Ascii_nn_ReLU, Ascii_my_Class}
Composites(index, parts) ==
  {WTable(index, 0, <<>>)}
    \cup {WTable(index, 1, WNum(Dbl_1) \o x) : x \in parts}
    \cup {WFunc(TYPE_FUNCTION, index, Ascii_a, x) : x \in parts}
    \cup {WTorch(index, c, x) : c \in ClassNames, x \in parts}
Inner == Leaves \cup UNION {Composites(j, Leaves) : j \in 1..MaxIndex}
GraphStreams ==
  Composites(1, Inner)
    \cup {WTable(1, 2, WNum(Dbl_1) \o x \o WNum(Dbl_2) \o y) :
            x \in Inner, y \in Leaves}
    \cup {WTable(1, 2, x \o WStr(Ascii_a) \o WStr(Ascii_a) \o y) :
            x \in Composites(2, {WNil}), y \in Leaves}

\* --- storages and tensors, written with longs of 4 or of 8 bytes: views
\* of one and two dimensions over a storage of StorageLen int32 items, at
\* every offset up to MaxOffset; tensors without storage; two tensors over
\* one storage.
StorageLen == 6
MaxOffset == 8
MaxDim == 3
Strides1 == {-1, 1, 2}
Shapes2 == {<<2, 3>>, <<3, 2>>}
Strides2 == {<<3, 1>>, <<1, 2>>, <<2, 1>>}
TensorStreamsOf(w) ==
  {WIntTensor(1, <<n>>, <<t>>, o, w, WIntStorage(2, StorageLen, w)) :
     n \in 1..MaxDim, t \in Strides1, o \in 0..MaxOffset}
  \cup {WIntTensor(1, sz, t, o, w, WIntStorage(2, StorageLen, w)) :
          sz \in Shapes2, t \in Strides2, o \in 1..2}
  \cup {WIntTensor(1, <<>>, <<>>, 1, w, WIntStorage(2, StorageLen, w)),
        WIntTensor(1, <<2>>, <<1>>, 1, w, WNil),
        WIntTensor(1, <<2>>, <<1>>, 1, w, WStr(Ascii_a)),
        WIntTensor(1, <<-2>>, <<1>>, 1, w, WIntStorage(2, StorageLen, w)),
        WIntTensor(1, <<2>>, <<1>>, 1, w,
                   WIntTensor(2, <<3>>, <<2>>, 1, w, WIntStorage(3, StorageLen, w)))}
  \cup {WTable(1, 2,
          WNum(Dbl_1) \o WIntTensor(2, <<2>>, <<1>>, 1, w, WIntStorage(3, StorageLen, w))
            \o WNum(Dbl_2) \o WIntTensor(4, <<2>>, <<t>>, o, w, WRef(TYPE_TORCH, 3))) :
          t \in Strides1, o \in 1..2}
  \cup {WTorch(1, Ascii_torch \o Ascii_Int \o Ascii_Storage, EncLong(n, w) \o EncInt(7)) :
          n \in {-1, 0, 1, 2}}
  \cup {WTorchV(1, v, Ascii_torch \o Ascii_Int \o Ascii_Storage, EncLong(1, w) \o EncInt(7)) :
          v \in {Ascii_V1, Ascii_Vx}}
  \cup {WTorch(1, Ascii_torch \o Ascii_Int \o Ascii_Tensor, EncInt(-1) \o EncLong(1, w))}
TensorStreams == TensorStreamsOf(4) \cup TensorStreamsOf(8)

\* --- truncation: every prefix of one stream per kind of payload, and the
\* payloads whose length field is negative or larger than what follows.
Prefixes(b) == {SubSeq(b, 1, n) : n \in 0..Len(b)}
Whole ==
  {WNum(Dbl_1_5), WStr(Ascii_my_Class), WBool(1),
   WFunc(TYPE_RECUR_FUNCTION, 1, Ascii_a \o Ascii_a, WNil),
   WFunc(LEGACY_TYPE_RECUR_FUNCTION, 1, Ascii_a, WNil),
   KeyedTable(1, <<WNum(Dbl_1)>>),
   WTorchV(1, Ascii_V1, Ascii_my_Class, WNil),
   WIntStorage(1, 2, 8),
   WIntTensor(1, <<2>>, <<1>>, 1, 4, WIntStorage(2, 2, 4))}
TruncatedStreams ==
  UNION {Prefixes(b) : b \in Whole}
  \cup {EncInt(TYPE_STRING) \o EncInt(n) \o Ascii_a \o Ascii_a : n \in {-1, 3, 1000}}
  \cup {WRef(TYPE_FUNCTION, 1) \o EncInt(n) \o Ascii_a \o WNil : n \in {-1, 1000}}
  \cup {WTable(1, n, WNum(Dbl_1) \o WNil) : n \in {-1, 2, 1000000}}

Streams == TableStreams \cup GraphStreams \cup TensorStreams \cup TruncatedStreams

(***************************************************************************)
(* T7Reader(fileobj, ...): the state after construction, with read_obj     *)
(* called once on it.                                                      *)
(***************************************************************************)
\* The keyword arguments, and the platform's struct.calcsize('l'), which
\* the reader uses only without force_8bytes_long.
Options ==
  {o \in [use_list_heuristic : BOOLEAN, use_int_heuristic : BOOLEAN,
          force_deserialize_classes : BOOLEAN, force_8bytes_long : BOOLEAN,
          native_long : {4, 8}] :
     o.force_8bytes_long => o.native_long = 8}

Init ==
  /\ f \in Streams
  /\ opts \in Options
  /\ pos = 0
  /\ objects = <<>>
  /\ heap = <<>>
  /\ stack = <<CallFrame>>
  /\ ret = NoRet
  /\ status = "running"
  /\ err = ""
  /\ last = [act |-> "init", index |-> 0, pos0 |-> 0]

Next ==
  \/ ReadTypeTruncated
  \/ ReadNil
  \/ ReadNumber
  \/ ReadBoolean
  \/ ReadString
  \/ ReadUnknownType
  \/ ReadIndexTruncated
  \/ ReadKnownIndex
  \/ BeginFunction
  \/ FinishFunction
  \/ BeginTable
  \/ TableNextPair
  \/ TableGotKey
  \/ TableGotValue
  \/ TableFinish
  \/ TorchHeaderFails
  \/ TorchUnsupported
  \/ BeginTorchObject
  \/ FinishTorchObject
  \/ ReadStorage
  \/ BeginTensor
  \/ FinishTensor

Spec == Init /\ [][Next]_vars

\* read_obj runs to its end: no step of it waits for anything.
FairSpec == Spec /\ WF_vars(Next)

(***************************************************************************)
(* Properties of the reader.                                               *)
(***************************************************************************)
\* The indices of the objects under construction: read under a new index,
\* their nested reads not finished.
OpenIndices ==
  {stack[i].index : i \in {j \in 1..Len(stack) : stack[j].op # "read_obj"}}

\* C1: within one deserialization every read_obj of one object index
\* returns the very same instance: a read of an index that was met before
\* (registered, or still under construction) is answered from the table,
\* and the instance an index stands for never changes.
SameInstancePerIndex ==
  [][ /\ (GotType(Indexable) /\ TypeIn(Index, Int)
            /\ Index.val \in DOMAIN objects \cup OpenIndices
          => last'.act = "ReadKnownIndex" /\ ret' = objects'[Index.val])
      /\ \A i \in DOMAIN objects : objects'[i] = objects[i] ]_vars

\* table A (index 1) whose single entry refers back to index 1
SelfCycleStream == WTable(1, 1, WNum(Dbl_1) \o WRef(TYPE_TABLE, 1))

\* the values held by the dict or list at address a
ValuesOf(h, a) ==
  IF h[a].kind = "dict" THEN {h[a].items[i].v : i \in 1..Len(h[a].items)}
  ELSE {h[a].items[i] : i \in 1..Len(h[a].items)}

\* C2: the stream of a table whose single entry refers back to the table's
\* own index is read without error, and the table returned contains itself.
SelfCycleReads ==
  f = SelfCycleStream /\ status # "running"
    => /\ status = "done"
       /\ ret.kind = "ref"
       /\ heap[ret.n].kind \in {"dict", "list"}
       /\ ValuesOf(heap, ret.n) = {ret}

\* C3: while the nested contents of an indexable value read under a new
\* index are being read, that index is already in self.objects.
IndexRegisteredBeforeNested ==
  status = "running" => OpenIndices \subseteq DOMAIN objects

\* every key an int (not a bool) that is >= 1
PositiveIntKeys(items) ==
  \A i \in 1..Len(items) :
    items[i].k.kind = "int" /\ items[i].k.s = <<>> /\ items[i].k.n >= 1
KeySet(items) == {items[i].k.n : i \in 1..Len(items)}

\* What the claim asks of the step that ends a table of fr.size pairs whose
\* dict holds items: a list of the values in key order, or the dict itself.
ListIffNatural(fr, items) ==
  IF PositiveIntKeys(items) /\ KeySet(items) = 1..fr.size
    THEN /\ status' # "error"
         /\ heap'[ret'.n].kind = "list"
         /\ Len(heap'[ret'.n].items) = Len(items)
         /\ \A i \in 1..Len(items) :
              \E j \in 1..Len(items) :
                items[j].k.n = i /\ heap'[ret'.n].items[i] = items[j].v
    ELSE ret' = Ref(fr.addr) /\ heap' = heap

\* C4: with the list heuristic a table of n pairs becomes a list iff every
\* key is a positive integer and the keys are exactly 1..n, element i-1
\* being the value of key i; any other table stays the dict, unchanged.
ListHeuristicExact ==
  [][ Running /\ Top.op = "table" /\ Top.phase = "loop" /\ Top.i >= Top.size
        /\ opts.use_list_heuristic
      => ListIffNatural(Top, heap[Top.addr].items) ]_vars

\* the int at position p of the stream
IntAt(p) == DecInt(SubSeq(f, p + 1, p + 4))

\* C5: a primitive read returns only what it was asked for, having advanced
\* by exactly the encoded width: a Number 8 bytes, a Boolean 4, a String its
\* 4-byte length and that many bytes, a Function's payload the size that
\* precedes it.
ReadsAreExact ==
  /\ last.act = "ReadNumber" /\ status # "error" => pos = last.pos0 + 12
  /\ last.act = "ReadBoolean" /\ status # "error" => pos = last.pos0 + 8
  /\ last.act = "ReadString" /\ status # "error" /\ IntAt(last.pos0 + 4) >= 0
       => /\ pos = last.pos0 + 8 + IntAt(last.pos0 + 4)
          /\ Len(ret.s) = IntAt(last.pos0 + 4)
  /\ last.act = "BeginFunction" /\ status # "error" /\ IntAt(last.pos0 + 8) >= 0
       => /\ pos = last.pos0 + 12 + IntAt(last.pos0 + 8)
          /\ Len(stack[Len(stack) - 1].dumped) = IntAt(last.pos0 + 8)

\* C6: a torch object of a class without a reader.  Without
\* force_deserialize_classes the read raises the unsupported-class error,
\* returns nothing and registers nothing.  With it the read goes on to the
\* nested value, registering nothing yet, and once that is read returns a
\* new TorchObject of the class name and the nested value, registered under
\* the object's index.
UnknownClassByMode ==
  [][ /\ (GotClass({"none"}) /\ ~opts.force_deserialize_classes
          => /\ status' = "error"
             /\ err' = "T7ReaderException: unsupported torch class"
             /\ ret' = NoRet
             /\ objects' = objects)
      /\ (GotClass({"none"}) /\ opts.force_deserialize_classes
          => /\ status' = "running"
             /\ Len(stack') = Len(stack) + 1
             /\ stack'[Len(stack)].op = "torchobj"
             /\ stack'[Len(stack)].className = Header.val
             /\ stack'[Len(stack)].index = Index.val
             /\ pos' = Header.pos
             /\ objects' = objects)
      /\ (Resumed("torchobj")
          => /\ heap' = Append(heap, HTorchObject(Top.className, ret))
             /\ ret' = Ref(Len(heap) + 1)
             /\ Top.index \in DOMAIN objects'
             /\ objects'[Top.index] = ret') ]_vars

\* C6 happens: a TorchObject of the unregistered class my.Class has been
\* returned and registered.
UnknownClassWrapped ==
  /\ last.act = "FinishTorchObject"
  /\ heap[ret.n].kind = "torchobj"
  /\ heap[ret.n].s = Ascii_my_Class
  /\ torch_readers(heap[ret.n].s).kind = "none"
  /\ objects[last.index] = ret

\* the storage element the claim names for the multi-index idx of the
\* tensor read in frame fr: (o - 1) + sum of idx[k] * t[k]
ClaimedAt(fr, idx) ==
  fr.storage_offset.n - 1 + Dot(idx, fr.strides, Len(idx))

\* v, at the heap h, is the view the claim describes of the storage at st
ViewOfStorage(fr, st, h, v) ==
  /\ v.kind = "ndarray"
  /\ v.shape = fr.sizes
  /\ v.owner = st
  /\ v.items = <<>>
  /\ h[st] = heap[st]
  /\ \A idx \in MultiIndices(fr.sizes) :
       ClaimedAt(fr, idx) \in 0..(Len(h[st].items) - 1)
         => ViewElem(h, v, idx) = {h[st].items[ClaimedAt(fr, idx) + 1]}

\* C7: a tensor of ndim >= 1 with a 1-based offset o over a storage is a
\* view of the storage's own buffer (no copy), of the shape read, whose
\* element at each multi-index is the storage element
\* (o - 1) + sum of idx[k] * t[k].
StridedViewOfStorage ==
  [][ Resumed("tensor") /\ Top.ndim >= 1
        /\ IsRefTo(heap, ret, "ndarray") /\ heap[ret.n].owner = ret.n
        /\ ~AnyBig(Top.sizes) /\ ~AnyBig(Top.strides) /\ ~AnyNegative(Top.sizes)
        /\ ~Top.storage_offset.big /\ Top.storage_offset.n >= 1
      => /\ status' # "error"
         /\ ViewOfStorage(Top, ret.n, heap', heap'[ret'.n]) ]_vars

\* the tables under construction
OpenTables == {Ref(stack[i].addr) : i \in {j \in 1..Len(stack) : stack[j].op = "table"}}
Registered == {objects[i] : i \in DOMAIN objects}

\* C8: a discriminant outside 0..8, at any depth, ends the whole read with
\* the unknown-object error: nothing is returned, no object under
\* construction is registered, and nothing is read afterwards.
UnknownTypeIsFatal ==
  [][ /\ (AtCall /\ TypeIn(TypeIdx, Int \ (0..8))
          => /\ status' = "error"
             /\ err' = "T7ReaderException: unknown object"
             /\ ret' = NoRet
             /\ objects' = objects
             /\ stack' = stack
             /\ OpenTables \cap Registered = {})
      /\ err # "T7ReaderException: unknown object" ]_vars

\* C8 happens: the unknown discriminant was met inside a table, after
\* another object had been registered.
UnknownTypeNested ==
  /\ status = "error"
  /\ err = "T7ReaderException: unknown object"
  /\ Len(stack) >= 2
  /\ stack[1].op = "table"
  /\ objects # <<>>

\* C9: a read_obj whose index is in self.objects returns the registered
\* object having consumed the discriminant and the index, 8 bytes, and
\* leaves self.objects and the objects alone; a read of nil, a number, a
\* boolean or a string changes neither and returns no registered object.
KnownIndexReadsEightBytes ==
  [][ /\ (GotType(Indexable) /\ Known(Index)
          => /\ pos' = pos + 8
             /\ ret' = objects[Index.val]
             /\ objects' = objects
             /\ heap' = heap
             /\ status' # "error")
      /\ (GotType(InlineTypes)
          => objects' = objects /\ heap' = heap /\ ret'.kind # "ref") ]_vars

\* C9 happens: a reference to a registered index has just been read.
KnownIndexWasRead ==
  /\ last.act = "ReadKnownIndex"
  /\ pos = last.pos0 + 8
  /\ ret = objects[last.index]

\* C10: every read_obj call consumes at least its 4-byte discriminant or
\* raises, and the top-level call ends, returning or raising.
ReadObjTerminates ==
  /\ [][AtCall => (status' = "error" \/ pos' >= pos + 4)]_vars
  /\ <>(status # "running")

\* C10 happens: a table that announces a million pairs has ended the read
\* at the end of the stream.
HugeTableEnded ==
  /\ status = "error"
  /\ \E i \in 1..Len(stack) : stack[i].op = "table" /\ stack[i].size = 1000000
  /\ pos = Len(f)

====
